---- MODULE Spec2Model ----
(***************************************************************************)
(* Model of the CSRF middleware of src/csrf.go: the Issuance handler built *)
(* by Generate and the per-route guard built by Validate, running against  *)
(* a per-session key/value store, with the application changing the        *)
(* session's user id between requests.                                     *)
(*                                                                         *)
(* Strings that the code only compares are TLA+ strings ("" is the empty   *)
(* string).  Strings that the code builds by concatenation (tokens, the    *)
(* session keys, the hidden-input snippet) are sequences of string pieces, *)
(* <<>> being the empty string, so that len(s) > 0 is Len(s) > 0.          *)
(***************************************************************************)
EXTENDS Integers, Sequences, FiniteSets, TLC

\* ------------------------------------------------------------------ bounds

\* How many of UidValues the application may store under the session key.
NumUids == 2

\* --------------------------------------------------------------- constants

StatusBadRequest == 400

\* The status written by an application-supplied ErrorFunc.
CustomStatus == 403

\* ------------------------------------------------------- session-store values

\* A Go interface{} value held by the session store: nil, a string or an int.
Nil == [t |-> "nil", v |-> ""]

StrVal(s) == [t |-> "string", v |-> s]

IntVal(s) == [t |-> "int", v |-> s]

UidValues == << StrVal("42"), IntVal("42"), StrVal("7") >>

Uids == { UidValues[i] : i \in 1..NumUids }

Sessions == { "sessA" }

\* fmt.Sprintf("%s", uid): a string prints as itself, an int prints as the
\* bad-verb form %!s(int=N).
Sprintf_s(uid) ==
    IF uid.t = "string" THEN uid.v
    ELSE CASE uid.v = "42" -> "%!s(int=42)"
           [] uid.v = "7"  -> "%!s(int=7)"
           [] OTHER        -> "%!s(int=?)"

\* The identities a request can resolve to.
Identities == {"0"} \cup { Sprintf_s(u) : u \in Uids }

\* ------------------------------------------------------------ Token Authority

\* derive(secret, identity, actionClass): deterministic, the three inputs
\* kept apart.
GenerateToken(key, userID, actionID) == << key, userID, actionID >>

\* verify: recompute and compare; any mismatch, a length mismatch included,
\* is false.
ValidToken(token, key, userID, actionID) ==
    token = GenerateToken(key, userID, actionID)

\* A token a client can present that no derivation yields: a derived token
\* with a suffix appended.
Tampered == << "s1", "42", "POST", "-tampered" >>

\* -------------------------------------------------------------------- Options

\* The zero value of the Options struct.
ZeroOptions ==
    [ Secret |-> "", Header |-> "", Form |-> "", Cookie |-> "",
      CookieDomain |-> "", CookiePath |-> "", CookieHttpOnly |-> FALSE,
      SessionKey |-> << >>, oldSeesionKey |-> << >>,
      SetHeader |-> FALSE, SetCookie |-> FALSE, Secure |-> FALSE,
      Origin |-> FALSE, ErrorFunc |-> "nil" ]

\* An application that sets every name, the secret and the failure handler.
CustomApp ==
    [ ZeroOptions EXCEPT
        !.Secret = "s1", !.Header = "X-Token", !.Form = "tok", !.Cookie = "ctok",
        !.CookieDomain = "example.com", !.CookiePath = "/app",
        !.CookieHttpOnly = TRUE, !.Secure = TRUE, !.SessionKey = << "user" >>,
        !.ErrorFunc = "custom" ]

\* The Options values the application passes to Generate: everything left to
\* its default or everything set, with each of the three switches on or off.
OptionsChoices ==
    { [ app EXCEPT !.SetHeader = sh, !.SetCookie = sc, !.Origin = og ] :
        app \in { ZeroOptions, CustomApp },
        sh \in BOOLEAN, sc \in BOOLEAN, og \in BOOLEAN }

\* The outcomes of string(randomBytes(10)).
RandomSecrets == { "Zk3f9QpL0a" }

Default(given, empty, dflt) == IF given = empty THEN dflt ELSE given

\* prepareOptions: options is the variadic argument list, rnd the outcome of
\* randomBytes should the secret be defaulted.
prepareOptions(options, rnd) ==
    LET opt0 == IF Len(options) > 0 THEN options[1] ELSE ZeroOptions
        key  == Default(opt0.SessionKey, << >>, << "uid" >>)
    IN  [ opt0 EXCEPT
            !.Secret        = Default(opt0.Secret, "", rnd),
            !.Header        = Default(opt0.Header, "", "X-CSRFToken"),
            !.Form          = Default(opt0.Form, "", "_csrf"),
            !.Cookie        = Default(opt0.Cookie, "", "_csrf"),
            !.CookiePath    = Default(opt0.CookiePath, "", "/"),
            !.SessionKey    = key,
            !.oldSeesionKey = << "_old_" >> \o key,
            !.ErrorFunc     = Default(opt0.ErrorFunc, "nil", "default") ]

\* ------------------------------------------------------------ HTTP collaborators

HeaderNames == { "X-CSRFToken", "X-Token" }

FormNames == { "_csrf", "tok" }

CookieNames == { "_csrf", "ctok" }

\* The values of the Origin request header: absent, or some origin.
Origins == { "", "https://other.example" }

\* The token strings a client can send: nothing, a tampered token, or a token
\* derived under the configured secret for some identity.
ClientTokens(secret) ==
    { << >>, Tampered } \cup { GenerateToken(secret, i, "POST") : i \in Identities }

\* A header, form or cookie table carrying value v under name n only.
Only(names, n, v) == [ k \in names |-> IF k = n THEN v ELSE << >> ]

\* The token entries of a header, form or cookie table: none, any client token
\* under the configured name, or a well-formed token under another name.
Entries(names, configured, secret) ==
    { Only(names, configured, v) : v \in ClientTokens(secret) }
      \cup { Only(names, n, GenerateToken(secret, "0", "POST")) : n \in names \ { configured } }

\* The requests Issuance sees: it reads the token cookie and the Origin header.
GenerateRequests(o) ==
    { [ header |-> Only(HeaderNames, "", << >>), form |-> Only(FormNames, "", << >>),
        cookie |-> c, origin |-> og ] :
        c \in Entries(CookieNames, o.Cookie, o.Secret), og \in Origins }

\* The requests Validate sees: it reads the token header and the token form field.
ValidateRequests(o) ==
    { [ header |-> h, form |-> f,
        cookie |-> Only(CookieNames, "", << >>), origin |-> "" ] :
        h \in Entries(HeaderNames, o.Header, o.Secret),
        f \in Entries(FormNames, o.Form, o.Secret) }

\* A request without any token.
BareRequest ==
    [ header |-> Only(HeaderNames, "", << >>), form |-> Only(FormNames, "", << >>),
      cookie |-> Only(CookieNames, "", << >>), origin |-> "" ]

\* r.Header.Get(name)
HeaderGet(r, name) == r.header[name]

\* r.FormValue(name)
FormValue(r, name) == r.form[name]

\* session.GetCookie(r, name): the value of the named cookie, empty if absent.
GetCookie(r, name) == r.cookie[name]

\* A response on which nothing was written yet.
NewResponse == [ status |-> 0, body |-> "", cookies |-> << >>, header |-> << >> ]

\* http.SetCookie(w, cookie)
SetCookie(w, cookie) == [ w EXCEPT !.cookies = Append(@, cookie) ]

\* w.Header().Add(name, value)
HeaderAdd(w, name, value) == [ w EXCEPT !.header = Append(@, << name, value >>) ]

\* http.Error(w, msg, code): the first status written stands.
HttpError(w, msg, code) ==
    [ w EXCEPT !.status = IF @ = 0 THEN code ELSE @, !.body = msg ]

\* session.NewCookie(name, value, path, domain, secure, httpOnly, expires)
NewCookie(name, value, path, domain, secure, httpOnly, expires) ==
    [ Name |-> name, Value |-> value, Path |-> path, Domain |-> domain,
      Secure |-> secure, HttpOnly |-> httpOnly, Expires |-> expires ]

\* &http.Cookie{Name: ..., Value: "", Path: ...}: every other field is zero.
ClearingCookie(name, path) ==
    [ Name |-> name, Value |-> << >>, Path |-> path, Domain |-> "",
      Secure |-> FALSE, HttpOnly |-> FALSE, Expires |-> "" ]

\* ------------------------------------------------------------------ the csrf value

\* The csrf struct the handler builds from the options.
NewCsrf(o) ==
    [ Header |-> o.Header, Form |-> o.Form, Cookie |-> o.Cookie,
      CookieDomain |-> o.CookieDomain, CookiePath |-> o.CookiePath,
      CookieHttpOnly |-> o.CookieHttpOnly, Token |-> << >>, ID |-> "",
      Secret |-> o.Secret, ErrorFunc |-> o.ErrorFunc ]

\* The ID of a request: "0", or the session's user id printed with %s.
ResolveID(sess, o) ==
    LET uid == sess[o.SessionKey]
    IN  IF uid # Nil THEN Sprintf_s(uid) ELSE "0"

\* csrf.ValidToken verifying for another action class than Issuance mints for.
CsrfValidTokenGet(c, t) == ValidToken(t, c.Secret, c.ID, "GET")

\* (c *csrf) ValidToken(t)
CsrfValidToken(c, t) == ValidToken(t, c.Secret, c.ID, "POST")

\* (c *csrf) Error(w): the default ErrorFunc of prepareOptions replies 400,
\* an application's ErrorFunc replies as it likes.
CsrfError(c, w) ==
    IF c.ErrorFunc = "default"
    THEN HttpError(w, "Invalid csrf token.", StatusBadRequest)
    ELSE HttpError(w, "custom", CustomStatus)

\* sess.Set that reports success and stores nothing.
SessSetDropped(sess, key, val, ok) == sess

\* sess.Set(key, val): ok says whether the store accepted the write.
SessSet(sess, key, val, ok) == IF ok THEN [ sess EXCEPT ![key] = val ] ELSE sess

\* ------------------------------------------------------------------------ state

VARIABLES
    opt,     \* the Options prepareOptions returned, captured by the handlers
    store,   \* the session store: session -> key -> value
    issued,  \* per session, what the last Issuance that ran the token logic gave
    resp,    \* the exchange the last step handled
    client,  \* per session, the browser: its cookie jar and what it last saw
    flight   \* the Issuance requests being handled concurrently, by slot

vars == << opt, store, issued, resp, client, flight >>

\* No token published to the request context.
NoCtx == [ set |-> FALSE, CsrfToken |-> << >>, CsrfTokenHtml |-> << >> ]

\* context.WithValue(ctx, "CsrfToken", t) and, from it, "CsrfTokenHtml".
WithToken(t) ==
    [ set |-> TRUE, CsrfToken |-> t,
      CsrfTokenHtml |-> << "<input type=\"hidden\" name=\"_csrf\" value=\"" >> \o t \o << "\">" >> ]

\* Nothing issued yet in a session.
NotIssued == [ set |-> FALSE, ID |-> "", Token |-> << >>, cookie |-> << >> ]

EmptySession(o) == [ k \in { o.SessionKey, o.oldSeesionKey } |-> Nil ]

\* No exchange: the last step was not a request.
Idle ==
    [ handler |-> "none", sess |-> "", r |-> BareRequest, w |-> NewResponse,
      next |-> 0, ctx |-> NoCtx, errors |-> 0, bypass |-> FALSE, panic |-> FALSE,
      needsNew |-> FALSE, x |-> NewCsrf(ZeroOptions),
      before |-> EmptySession(ZeroOptions), first |-> NotIssued,
      sets |-> << >>, setErr |-> FALSE ]

\* A browser that has not talked to the site yet: no cookie in the jar;
\* cleared says that a rejection has cleared the token cookie and no Issuance
\* ran its token logic since, afterClear that the last step was the first
\* such Issuance.
NewBrowser == [ jar |-> << >>, cleared |-> FALSE, afterClear |-> FALSE ]

\* The goroutines that can be serving an Issuance request at the same time.
Slots == { 1, 2 }

\* A slot serving no request.  A request in a slot is at pc "sent" (arrived),
\* "gotUid" (the user id read), "set" (the slot read and found changed, the
\* sess.Set still to come) or "respond" (the handler returned, the response
\* on its way to the browser).
NoFlight ==
    [ pc |-> "idle", sess |-> "", r |-> BareRequest, ID |-> "",
      w |-> NewResponse ]

\* Generate(options...) runs prepareOptions once; every session starts empty.
Init ==
    /\ \E options \in { << >> } \cup { << o >> : o \in OptionsChoices },
          rnd \in RandomSecrets :
          opt = prepareOptions(options, rnd)
    /\ store = [ s \in Sessions |-> EmptySession(opt) ]
    /\ issued = [ s \in Sessions |-> NotIssued ]
    /\ resp = Idle
    /\ client = [ s \in Sessions |-> NewBrowser ]
    /\ flight = [ q \in Slots |-> NoFlight ]

\* --------------------------------------------------------------------- Issuance

\* OriginBypass with the length test inverted.
OriginBypassInverted(o, r) == o.Origin /\ ~ (r.origin # "")

\* The Origin carve-out: the option is on and the request names an origin.
OriginBypass(o, r) == o.Origin /\ r.origin # ""

\* IdentityChanged without the nil test: an absent slot counts as unchanged.
IdentityChangedNilSame(oldUid, ID) == oldUid # Nil /\ oldUid.v # ID

\* Whether the previous-identity slot is absent or differs from the ID.
IdentityChanged(oldUid, ID) == oldUid = Nil \/ oldUid.v # ID

\* NeedsNew that never reuses the cookie.
NeedsNewAlways(oldUid, ID, val) == TRUE

\* NeedsNew without the empty-cookie case.
NeedsNewOnlyOnChange(oldUid, ID, val) == IdentityChanged(oldUid, ID)

\* Whether a new token is needed: the identity changed, or it did not and the
\* request carries no token cookie to reuse.
NeedsNew(oldUid, ID, val) == IdentityChanged(oldUid, ID) \/ ~ (Len(val) > 0)

\* IssueResponse with the header added only for a newly minted token.
IssueResponseHeaderOnNew(o, x, needsNew) ==
    LET newCookie == NewCookie(o.Cookie, x.Token, o.CookiePath, o.CookieDomain,
                               o.Secure, o.CookieHttpOnly, "now+1day")
        w1 == IF needsNew /\ o.SetCookie
              THEN SetCookie(NewResponse, newCookie) ELSE NewResponse
    IN  IF needsNew /\ o.SetHeader THEN HeaderAdd(w1, o.Header, x.Token) ELSE w1

\* What Issuance writes on the response: the cookie for a new token if
\* SetCookie, the header for the current token if SetHeader.
IssueResponse(o, x, needsNew) ==
    LET newCookie == NewCookie(o.Cookie, x.Token, o.CookiePath, o.CookieDomain,
                               o.Secure, o.CookieHttpOnly, "now+1day")
        w1 == IF needsNew /\ o.SetCookie
              THEN SetCookie(NewResponse, newCookie) ELSE NewResponse
    IN  IF o.SetHeader THEN HeaderAdd(w1, o.Header, x.Token) ELSE w1

\* The handler Generate returns, serving request r of session s; setOk says
\* whether the store accepts a sess.Set the handler makes.
Generate(s, r, setOk) ==
    LET sess   == store[s]
        x0     == NewCsrf(opt)
        base   == [ Idle EXCEPT !.handler = "Generate", !.sess = s, !.r = r,
                                !.before = sess, !.first = issued[s] ]
    IN
    IF OriginBypass(opt, r)
    THEN /\ resp' = [ base EXCEPT !.next = 1, !.bypass = TRUE, !.x = x0 ]
         /\ UNCHANGED << opt, store, issued >>
    ELSE
    LET ID     == ResolveID(sess, opt)
        oldUid == sess[opt.oldSeesionKey]
    IN
    IF oldUid # Nil /\ oldUid.t # "string"
    THEN \* oldUid.(string) panics
         /\ resp' = [ base EXCEPT !.panic = TRUE, !.x = [ x0 EXCEPT !.ID = ID ] ]
         /\ UNCHANGED << opt, store, issued >>
    ELSE
    LET val      == GetCookie(r, opt.Cookie)
        needsNew == NeedsNew(oldUid, ID, val)
        Token    == IF needsNew THEN GenerateToken(x0.Secret, ID, "POST") ELSE val
        x        == [ x0 EXCEPT !.ID = ID, !.Token = Token ]
        w2       == IssueResponse(opt, x, needsNew)
        changed  == IdentityChanged(oldUid, ID)
    IN  /\ store' = [ store EXCEPT ![s] =
                        IF IdentityChanged(oldUid, ID)
                        THEN SessSet(sess, opt.oldSeesionKey, StrVal(x.ID), setOk)
                        ELSE sess ]
        /\ issued' = [ issued EXCEPT ![s] =
                        [ set |-> TRUE, ID |-> x.ID, Token |-> x.Token,
                          cookie |-> IF needsNew /\ opt.SetCookie THEN x.Token ELSE << >> ] ]
        /\ resp' = [ base EXCEPT !.w = w2, !.next = 1, !.ctx = WithToken(x.Token),
                                 !.needsNew = needsNew, !.x = x,
                                 !.sets = IF changed
                                          THEN << << opt.oldSeesionKey, StrVal(x.ID) >> >>
                                          ELSE << >>,
                                 !.setErr = changed /\ ~ setOk ]
        /\ UNCHANGED opt

\* ------------------------------------------------------------------- Validation

\* ValidateDecision with the last branch allowing: a request without a token
\* is forwarded.
ValidateDecisionAllowMissing(x, r) ==
    LET htok == HeaderGet(r, x.Header)
        ftok == FormValue(r, x.Form)
    IN  IF Len(htok) > 0
        THEN IF ~ CsrfValidToken(x, htok) THEN "invalid" ELSE "forward"
        ELSE IF Len(ftok) > 0
        THEN IF ~ CsrfValidToken(x, ftok) THEN "invalid" ELSE "forward"
        ELSE "forward"

\* ValidateDecision with the form field as a fallback for a header token that
\* failed.
ValidateDecisionFormFallback(x, r) ==
    LET htok == HeaderGet(r, x.Header)
        ftok == FormValue(r, x.Form)
    IN  IF Len(htok) > 0 /\ CsrfValidToken(x, htok) THEN "forward"
        ELSE IF Len(ftok) > 0
        THEN IF ~ CsrfValidToken(x, ftok) THEN "invalid" ELSE "forward"
        ELSE IF Len(htok) > 0 THEN "invalid" ELSE "missing"

\* What Validate decides for a request: "forward", "invalid" (a token was
\* found and failed ValidToken) or "missing" (no token was found).
ValidateDecision(x, r) ==
    LET htok == HeaderGet(r, x.Header)
        ftok == FormValue(r, x.Form)
    IN  IF Len(htok) > 0
        THEN IF ~ CsrfValidToken(x, htok) THEN "invalid" ELSE "forward"
        ELSE IF Len(ftok) > 0
        THEN IF ~ CsrfValidToken(x, ftok) THEN "invalid" ELSE "forward"
        ELSE "missing"

\* RejectInvalid without the clearing cookie.
RejectInvalidKeepCookie(x, w) == [ w |-> CsrfError(x, w), errors |-> 1 ]

\* The rejection of a token that failed ValidToken: the response, and how
\* often the failure handler ran.
RejectInvalid(x, w) ==
    [ w |-> CsrfError(x, SetCookie(w, ClearingCookie(x.Cookie, x.CookiePath))),
      errors |-> 1 ]

\* RejectMissing through the configurable failure handler.
RejectMissingViaErrorFunc(x, w) == [ w |-> CsrfError(x, w), errors |-> 1 ]

\* The rejection of a request without a token.
RejectMissing(x, w) ==
    [ w |-> HttpError(w, "Bad Request: no CSRF token present", StatusBadRequest),
      errors |-> 0 ]

\* The handler Validate returns, serving request r of session s; x is the csrf
\* value of that request: the configured secret and the session's identity.
Validate(s, r) ==
    LET x     == [ NewCsrf(opt) EXCEPT !.ID = ResolveID(store[s], opt) ]
        base  == [ Idle EXCEPT !.handler = "Validate", !.sess = s, !.r = r,
                               !.before = store[s], !.first = issued[s], !.x = x ]
        d     == ValidateDecision(x, r)
        rej   == IF d = "invalid" THEN RejectInvalid(x, NewResponse)
                 ELSE RejectMissing(x, NewResponse)
    IN  /\ resp' = IF d = "forward" THEN [ base EXCEPT !.next = 1 ]
                   ELSE [ base EXCEPT !.w = rej.w, !.errors = rej.errors ]
        /\ UNCHANGED << opt, store, issued >>

\* ------------------------------------------------------------------ application

\* The application logs the session's user in or out: it stores another value
\* under the session key, or removes it.
SetUid(s, v) ==
    /\ store[s][opt.SessionKey] # v
    /\ store' = [ store EXCEPT ![s][opt.SessionKey] = v ]
    /\ resp' = Idle
    /\ UNCHANGED << opt, issued >>

Next ==
    \/ \E s \in Sessions, r \in GenerateRequests(opt) :
          Generate(s, r, TRUE) /\ UNCHANGED << client, flight >>
    \/ \E s \in Sessions, r \in ValidateRequests(opt) :
          Validate(s, r) /\ UNCHANGED << client, flight >>
    \/ \E s \in Sessions, v \in Uids \cup { Nil } :
          SetUid(s, v) /\ UNCHANGED << client, flight >>

Spec == Init /\ [][Next]_vars

\* Issuance on a session store whose Set can fail.
NextStoreFails ==
    \/ \E s \in Sessions, r \in GenerateRequests(opt), setOk \in BOOLEAN :
          Generate(s, r, setOk) /\ UNCHANGED << client, flight >>
    \/ \E s \in Sessions, v \in Uids \cup { Nil } :
          SetUid(s, v) /\ UNCHANGED << client, flight >>

SpecStoreFails == Init /\ [][NextStoreFails]_vars

\* Some other user of the session store, the application or an earlier
\* version of it, stores a value of its own under the previous-identity key.
PutOld(s, v) ==
    /\ store[s][opt.oldSeesionKey] # v
    /\ store' = [ store EXCEPT ![s][opt.oldSeesionKey] = v ]
    /\ resp' = Idle
    /\ UNCHANGED << opt, issued >>

\* Issuance on a session store that holds any contents.
NextAnyStore ==
    \/ \E s \in Sessions, r \in GenerateRequests(opt) :
          Generate(s, r, TRUE) /\ UNCHANGED << client, flight >>
    \/ \E s \in Sessions, v \in Uids \cup { Nil } :
          SetUid(s, v) /\ UNCHANGED << client, flight >>
    \/ \E s \in Sessions, v \in Uids \cup { Nil } :
          PutOld(s, v) /\ UNCHANGED << client, flight >>

SpecAnyStore == Init /\ [][NextAnyStore]_vars

\* ------------------------------------------------------------------ the browser

\* The host the browser reaches the site under; a configured cookie domain is
\* a parent of it.
Host == "app.example.com"

\* The domain a cookie is stored under: its Domain attribute, or the host for
\* a cookie without one.
CookieDomainOf(c) == IF c.Domain = "" THEN Host ELSE c.Domain

SameCookie(c, d) ==
    /\ c.Name = d.Name
    /\ c.Path = d.Path
    /\ CookieDomainOf(c) = CookieDomainOf(d)

\* The jar after a Set-Cookie: the cookie replaces the stored cookie of the
\* same name, domain and path, in its place, and is added last otherwise.
StoreCookie(jar, c) ==
    IF \E i \in 1..Len(jar) : SameCookie(jar[i], c)
    THEN [ i \in 1..Len(jar) |-> IF SameCookie(jar[i], c) THEN c ELSE jar[i] ]
    ELSE Append(jar, c)

\* The jar after all Set-Cookie headers of a response, in order.
RECURSIVE StoreCookies(_, _)
StoreCookies(jar, cs) ==
    IF cs = << >> THEN jar ELSE StoreCookies(StoreCookie(jar, Head(cs)), Tail(cs))

\* The value r.Cookie(name) finds in the Cookie header the browser sends: that
\* of the first cookie of the name, the jar being in order of creation.
FirstCookie(jar, name) ==
    IF \E i \in 1..Len(jar) : jar[i].Name = name
    THEN jar[CHOOSE i \in 1..Len(jar) :
                 /\ jar[i].Name = name
                 /\ \A j \in 1..(i - 1) : jar[j].Name # name].Value
    ELSE << >>

\* The request the browser sends to Issuance: its cookies, and an Origin
\* header or none.
BrowserRequest(jar, og) ==
    [ BareRequest EXCEPT !.cookie = [ n \in CookieNames |-> FirstCookie(jar, n) ],
                         !.origin = og ]

\* The browser sends a request through Issuance and takes the cookies of the
\* response.
BrowserGenerate(s, og) ==
    /\ Generate(s, BrowserRequest(client[s].jar, og), TRUE)
    /\ client' = [ client EXCEPT ![s] =
                     [ jar |-> StoreCookies(@.jar, resp'.w.cookies),
                       cleared |-> @.cleared /\ resp'.bypass,
                       afterClear |-> @.cleared /\ ~ resp'.bypass ] ]
    /\ UNCHANGED flight

\* The browser sends a request with a token in the configured header through
\* Validate and takes the cookies of the response.
BrowserValidate(s, r) ==
    /\ Validate(s, r)
    /\ client' = [ client EXCEPT ![s] =
                     [ jar |-> StoreCookies(@.jar, resp'.w.cookies),
                       cleared |-> @.cleared \/ Len(resp'.w.cookies) > 0,
                       afterClear |-> FALSE ] ]
    /\ UNCHANGED flight

\* The application changes the user id of a session the browser is in.
BrowserSetUid(s, v) ==
    /\ SetUid(s, v)
    /\ client' = [ client EXCEPT ![s].afterClear = FALSE ]
    /\ UNCHANGED flight

\* The requests a page sends to a protected route: a token in the configured
\* header, no form field.
HeaderRequests(o) ==
    { r \in ValidateRequests(o) :
        /\ r.form = BareRequest.form
        /\ \A n \in HeaderNames \ { o.Header } : r.header[n] = << >> }

\* The program serving one browser per session.
NextBrowser ==
    \/ \E s \in Sessions, og \in Origins : BrowserGenerate(s, og)
    \/ \E s \in Sessions, r \in HeaderRequests(opt) : BrowserValidate(s, r)
    \/ \E s \in Sessions, v \in Uids \cup { Nil } : BrowserSetUid(s, v)

SpecBrowser == Init /\ [][NextBrowser]_vars

\* ------------------------------------------------------- concurrent Issuance

\* The browser sends a request of session s; the first free goroutine takes
\* it.  As in SetUid, resp holds an exchange only in the state its handler
\* returned in.
CSend(q, s, og) ==
    /\ flight[q].pc = "idle"
    /\ \A p \in Slots : p < q => flight[p].pc # "idle"
    /\ flight' = [ flight EXCEPT ![q] =
                     [ NoFlight EXCEPT !.pc = "sent", !.sess = s,
                                       !.r = BrowserRequest(client[s].jar, og) ] ]
    /\ resp' = Idle
    /\ UNCHANGED << opt, store, issued, client >>

\* The exchange a goroutine completes: as the handler of Generate builds it.
CExchange(f, sess) ==
    [ Idle EXCEPT !.handler = "Generate", !.sess = f.sess, !.r = f.r,
                  !.before = sess, !.first = issued[f.sess], !.next = 1 ]

\* The end of the handler in goroutine q, from the reuse-or-mint decision on:
\* changed says whether the previous-identity slot was found absent or
\* different, sets are the sess.Set calls made.
CFinish(q, changed, sets) ==
    LET f        == flight[q]
        val      == GetCookie(f.r, opt.Cookie)
        needsNew == changed \/ ~ (Len(val) > 0)
        Token    == IF needsNew THEN GenerateToken(opt.Secret, f.ID, "POST") ELSE val
        x        == [ NewCsrf(opt) EXCEPT !.ID = f.ID, !.Token = Token ]
        w2       == IssueResponse(opt, x, needsNew)
    IN  /\ resp' = [ CExchange(f, store[f.sess]) EXCEPT
                       !.w = w2, !.ctx = WithToken(x.Token), !.needsNew = needsNew,
                       !.x = x, !.sets = sets ]
        /\ issued' = [ issued EXCEPT ![f.sess] =
                        [ set |-> TRUE, ID |-> x.ID, Token |-> x.Token,
                          cookie |-> IF needsNew /\ opt.SetCookie THEN x.Token ELSE << >> ] ]
        /\ flight' = [ flight EXCEPT ![q].pc = "respond", ![q].w = w2 ]

\* Goroutine q checks the Origin carve-out and reads the session's user id.
CGetUid(q) ==
    LET f == flight[q]
    IN  /\ f.pc = "sent"
        /\ IF OriginBypass(opt, f.r)
           THEN /\ resp' = [ CExchange(f, store[f.sess]) EXCEPT
                               !.bypass = TRUE, !.x = NewCsrf(opt) ]
                /\ flight' = [ flight EXCEPT ![q].pc = "respond" ]
           ELSE /\ flight' = [ flight EXCEPT ![q].pc = "gotUid",
                                             ![q].ID = ResolveID(store[f.sess], opt) ]
                /\ resp' = Idle
        /\ UNCHANGED << opt, store, issued, client >>

\* Goroutine q reads the previous-identity slot and compares: on a change the
\* sess.Set is still to come, otherwise the handler runs to its end.
CGetOld(q) ==
    LET f      == flight[q]
        oldUid == store[f.sess][opt.oldSeesionKey]
    IN  /\ f.pc = "gotUid"
        /\ IF oldUid # Nil /\ oldUid.t # "string"
           THEN /\ resp' = [ CExchange(f, store[f.sess]) EXCEPT
                               !.next = 0, !.panic = TRUE,
                               !.x = [ NewCsrf(opt) EXCEPT !.ID = f.ID ] ]
                /\ flight' = [ flight EXCEPT ![q].pc = "respond" ]
                /\ UNCHANGED issued
           ELSE IF IdentityChanged(oldUid, f.ID)
           THEN /\ flight' = [ flight EXCEPT ![q].pc = "set" ]
                /\ resp' = Idle
                /\ UNCHANGED issued
           ELSE CFinish(q, FALSE, << >>)
        /\ UNCHANGED << opt, store, client >>

\* Goroutine q stores its identity in the previous-identity slot and runs the
\* handler to its end.
CSet(q) ==
    LET f == flight[q]
    IN  /\ f.pc = "set"
        /\ store' = [ store EXCEPT ![f.sess] =
                        SessSet(@, opt.oldSeesionKey, StrVal(f.ID), TRUE) ]
        /\ CFinish(q, TRUE, << << opt.oldSeesionKey, StrVal(f.ID) >> >>)
        /\ UNCHANGED << opt, client >>

\* The response of goroutine q reaches the browser, which takes its cookies.
CDeliver(q) ==
    LET f == flight[q]
    IN  /\ f.pc = "respond"
        /\ client' = [ client EXCEPT ![f.sess].jar = StoreCookies(@, f.w.cookies) ]
        /\ flight' = [ flight EXCEPT ![q] = NoFlight ]
        /\ resp' = Idle
        /\ UNCHANGED << opt, store, issued >>

\* The application changes the session's user id while requests are served.
CSetUid(s, v) ==
    /\ store[s][opt.SessionKey] # v
    /\ store' = [ store EXCEPT ![s][opt.SessionKey] = v ]
    /\ resp' = Idle
    /\ UNCHANGED << opt, issued, client, flight >>

\* Issuance serving the requests of a session's browser concurrently, the
\* session store's operations being the only atomic steps.
NextConcurrent ==
    \/ \E q \in Slots, s \in Sessions, og \in Origins : CSend(q, s, og)
    \/ \E q \in Slots : CGetUid(q)
    \/ \E q \in Slots : CGetOld(q)
    \/ \E q \in Slots : CSet(q)
    \/ \E q \in Slots : CDeliver(q)
    \/ \E s \in Sessions, v \in Uids \cup { Nil } : CSetUid(s, v)

SpecConcurrent == Init /\ [][NextConcurrent]_vars

\* ----------------------------------------------------------- claims on Validate

\* The exchange of the last step was handled by Validate.
Validated == resp.handler = "Validate"

\* The token of the configured request header, and of the configured form field.
HeaderToken == resp.r.header[opt.Header]

FormToken == resp.r.form[opt.Form]

\* The identity the request's session has.
SessionID == ResolveID(store[resp.sess], opt)

\* Whether t is the token derived for the session's identity.
Verifies(t) == ValidToken(t, opt.Secret, SessionID, "POST")

\* The candidate token: the header's, or the form field's when the header has none.
Candidate == IF Len(HeaderToken) > 0 THEN HeaderToken ELSE FormToken

\* A rejection: some status was written and the next handler did not run.
Rejected == resp.w.status # 0 /\ resp.next = 0

\* C1: Validate is fail-closed.  The next handler runs only for a request whose
\* candidate token (the configured header's, or the configured form field's
\* when the header has none) is non-empty and verifies; every other request
\* gets a rejection response and never reaches the next handler.
C1_FailClosed ==
    Validated =>
        /\ resp.next \in { 0, 1 }
        /\ resp.next = 1 => Len(Candidate) > 0 /\ Verifies(Candidate)
        /\ ~ (Len(Candidate) > 0 /\ Verifies(Candidate)) => Rejected

\* A request with no header token and a valid form token was forwarded.
C1_Witness ==
    /\ Validated
    /\ Len(HeaderToken) = 0 /\ Len(FormToken) > 0 /\ Verifies(FormToken)
    /\ resp.next = 1

\* C2: the header has priority over the form field.  A non-empty header token
\* that fails verification rejects the request whatever the form field holds,
\* and a non-empty header token that verifies forwards it whatever the form
\* field holds: the form field counts only when the header has no token.
C2_HeaderPriority ==
    Validated /\ Len(HeaderToken) > 0 =>
        /\ ~ Verifies(HeaderToken) => Rejected
        /\ Verifies(HeaderToken) => resp.next = 1 /\ resp.w.status = 0

\* A request with an invalid header token and a valid form token was rejected.
C2_Witness ==
    /\ Validated
    /\ Len(HeaderToken) > 0 /\ ~ Verifies(HeaderToken)
    /\ Len(FormToken) > 0 /\ Verifies(FormToken)
    /\ Rejected

\* C3: a non-empty candidate token that fails verification makes Validate
\* write one cookie of empty value with the configured name and path, run the
\* configured failure handler exactly once (status 400 with the default
\* handler) and not forward the request.
C3_InvalidTokenRejection ==
    Validated /\ Len(Candidate) > 0 /\ ~ Verifies(Candidate) =>
        /\ Len(resp.w.cookies) = 1
        /\ resp.w.cookies[1].Name = opt.Cookie
        /\ resp.w.cookies[1].Value = << >>
        /\ resp.w.cookies[1].Path = opt.CookiePath
        /\ resp.errors = 1
        /\ opt.ErrorFunc = "default" => resp.w.status = StatusBadRequest
        /\ Rejected

\* A request whose only token, in the form field, is invalid was rejected by
\* the default failure handler.
C3_Witness ==
    /\ Validated
    /\ Len(HeaderToken) = 0 /\ Len(FormToken) > 0 /\ ~ Verifies(FormToken)
    /\ opt.ErrorFunc = "default" /\ resp.errors = 1
    /\ Len(resp.w.cookies) = 1

\* C4: a request with neither a header token nor a form token is rejected with
\* status 400 and not forwarded, no cookie is written and the configurable
\* failure handler does not run.
C4_MissingTokenRejection ==
    Validated /\ Len(HeaderToken) = 0 /\ Len(FormToken) = 0 =>
        /\ resp.w.status = StatusBadRequest
        /\ resp.next = 0
        /\ resp.w.cookies = << >>
        /\ resp.errors = 0

\* A request without a token was rejected under an application's own failure
\* handler, which did not run.
C4_Witness ==
    /\ Validated
    /\ Len(HeaderToken) = 0 /\ Len(FormToken) = 0
    /\ opt.ErrorFunc = "custom"
    /\ resp.w.status = StatusBadRequest /\ resp.errors = 0

\* ----------------------------------------------------------- claims on Issuance

\* The exchange of the last step ran the token logic of Issuance.
Issued == resp.handler = "Generate" /\ ~ resp.bypass /\ ~ resp.panic

\* derive(secret, identity of the request, "POST").
DerivedToken == GenerateToken(opt.Secret, SessionID, "POST")

\* The token cookie the request carried.
CookieToken == resp.r.cookie[opt.Cookie]

\* C5: whatever requests came before and whatever cookie the request carries,
\* the token Issuance attaches to a non-bypassed request, in the request
\* context, in the response header and in the cookie, is
\* derive(secret, identity of the request, "POST").
C5_IssuedTokenIsDerived ==
    Issued =>
        /\ resp.ctx.set /\ resp.ctx.CsrfToken = DerivedToken
        /\ \A i \in 1..Len(resp.w.header) : resp.w.header[i][2] = DerivedToken
        /\ \A i \in 1..Len(resp.w.cookies) : resp.w.cookies[i].Value = DerivedToken

\* C6: when the identity of a session differs between two requests that ran
\* the token logic of Issuance, the second request gets a newly derived token, not the cookie's,
\* and the token issued on the first request fails verification under the
\* new identity.
C6_IdentityChangeRotates ==
    Issued /\ resp.first.set /\ resp.first.ID # SessionID =>
        /\ resp.needsNew
        /\ resp.ctx.CsrfToken = DerivedToken
        /\ ~ ValidToken(resp.first.Token, opt.Secret, SessionID, "POST")

C9_EndToEnd ==
    Validated /\ resp.first.set /\ resp.first.ID = SessionID /\ Len(HeaderToken) > 0 =>
        /\ HeaderToken = resp.first.Token => resp.next = 1
        /\ HeaderToken # resp.first.Token =>
               /\ Rejected
               /\ opt.ErrorFunc = "default" => resp.w.status = StatusBadRequest

\* C10: with the Origin option set, a request with a non-empty Origin header
\* is forwarded with all token logic skipped: the session store is not
\* written, no cookie and no response header is set and no token is published
\* to the request context.
C10_OriginBypassChangesNothing ==
    resp.handler = "Generate" /\ opt.Origin /\ resp.r.origin # "" =>
        /\ store[resp.sess] = resp.before
        /\ issued[resp.sess] = resp.first
        /\ resp.w = NewResponse
        /\ resp.ctx = NoCtx
        /\ resp.next = 1

\* A request with an Origin header went through under the Origin option in a
\* session whose identity had changed, with cookie and header output on: the
\* previous-identity slot kept its old value.
C10_Witness ==
    /\ resp.handler = "Generate" /\ opt.Origin /\ resp.r.origin # ""
    /\ opt.SetCookie /\ opt.SetHeader
    /\ store[resp.sess][opt.oldSeesionKey] # Nil
    /\ store[resp.sess][opt.oldSeesionKey] # StrVal(SessionID)
    /\ resp.next = 1 /\ resp.w = NewResponse

\* ------------------------------------------------ further claims on Issuance

\* The secrets, identities and action classes the round trip is tried on.
RoundTripInputs ==
    { << sec, i, a >> : sec \in { opt.Secret, "s2" }, i \in Identities,
                        a \in { "POST", "GET" } }

RotationRequired ==
    \/ resp.before[opt.oldSeesionKey] = Nil
    \/ resp.before[opt.oldSeesionKey] # StrVal(SessionID)
    \/ Len(CookieToken) = 0

\* C14: on every non-bypassed request Issuance adds the current token to the
\* response header iff SetHeader is set, minted or reused alike; it writes
\* the cookie iff rotation was required and SetCookie is set, and never on a
\* reuse.
C14_HeaderAndCookieOutput ==
    Issued =>
        /\ resp.w.header = IF opt.SetHeader
                           THEN << << opt.Header, resp.ctx.CsrfToken >> >> ELSE << >>
        /\ Len(resp.w.cookies) = IF RotationRequired /\ opt.SetCookie THEN 1 ELSE 0
        /\ \A i \in 1..Len(resp.w.cookies) :
               /\ resp.w.cookies[i].Name = opt.Cookie
               /\ resp.w.cookies[i].Value = resp.ctx.CsrfToken
        /\ ~ resp.needsNew => resp.w.cookies = << >>

\* A reuse with SetHeader and SetCookie on: the header carries the reused
\* token and no cookie is written.
C14_Witness ==
    /\ Issued /\ ~ RotationRequired /\ opt.SetHeader /\ opt.SetCookie
    /\ resp.w.header = << << opt.Header, CookieToken >> >>
    /\ resp.w.cookies = << >>

\* C15: when the previous-identity binding equals the identity and the
\* request carries no token cookie, or an empty one, Issuance requires
\* rotation anyway: the token is derive(secret, identity, "POST") and the
\* previous-identity slot is not written again.
C15_EmptyCookieRotates ==
    Issued /\ resp.before[opt.oldSeesionKey] = StrVal(SessionID) /\ Len(CookieToken) = 0 =>
        /\ resp.needsNew
        /\ resp.ctx.CsrfToken = DerivedToken
        /\ resp.sets = << >>
        /\ store[resp.sess] = resp.before

\* A request with a token cookie under another name only, in a session bound
\* to its identity: a new token was minted and its cookie written.
C15_Witness ==
    /\ Issued /\ resp.before[opt.oldSeesionKey] = StrVal(SessionID)
    /\ Len(CookieToken) = 0 /\ \E n \in CookieNames : Len(resp.r.cookie[n]) > 0
    /\ resp.needsNew /\ resp.sets = << >> /\ Len(resp.w.cookies) = 1

\* ------------------------------------------------- claims on the session store

\* C11: a failure of the session store's set during Issuance is propagated
\* to the caller and not swallowed: a request whose set failed does not go on
\* to the next handler as if the binding had been stored.
C11_SetFailurePropagates ==
    resp.handler = "Generate" /\ resp.setErr => resp.next = 0 /\ ~ resp.ctx.set

\* C17: after every non-bypassed Issuance request whose set succeeded, the
\* previous-identity slot, "_old_" + session key, holds the identity resolved
\* for the request; Issuance never writes the current-identity key.
C17_PreviousIdentitySlot ==
    /\ Issued /\ ~ resp.setErr =>
           store[resp.sess][<< "_old_" >> \o opt.SessionKey] = StrVal(SessionID)
    /\ resp.handler = "Generate" =>
           /\ \A i \in 1..Len(resp.sets) : resp.sets[i][1] # opt.SessionKey
           /\ store[resp.sess][opt.SessionKey] = resp.before[opt.SessionKey]

\* A request of a session whose user id is an int stored the printed identity
\* in the previous-identity slot.
C17_Witness ==
    /\ Issued /\ ~ resp.setErr /\ Len(resp.sets) = 1
    /\ SessionID = "%!s(int=42)"
    /\ store[resp.sess][<< "_old_" >> \o opt.SessionKey] = StrVal(SessionID)

\* C18: Issuance never rejects.  Every request entering the handler, on the
\* Origin carve-out and on the token path, whatever the session store holds,
\* reaches the next handler exactly once.
C18_AlwaysForwards == resp.handler = "Generate" => resp.next = 1

\* ------------------------------------------------------- claims on the browser

\* C12: after Validate rejected an invalid token and cleared the token cookie,
\* the browser's next request through Issuance, carrying the cookies that
\* response left it with, is issued a freshly derived token and not the value
\* of the cookie, whatever cookie name, path and domain are configured.
C12_ClearedCookieForcesReissue ==
    Issued /\ client[resp.sess].afterClear =>
        /\ resp.needsNew
        /\ resp.ctx.CsrfToken = DerivedToken

\* ------------------------------------------------------ claims on concurrency

\* C16: with the requests of a session handled concurrently and no locking in
\* the middleware, whatever the interleaving of their session reads and
\* writes with a change of identity and whatever the order their responses
\* reach the browser in, a request never reuses a token minted for another
\* identity than its own.
C16_NoReuseAcrossIdentities ==
    Issued /\ ~ resp.needsNew =>
        resp.ctx.CsrfToken = GenerateToken(opt.Secret, resp.x.ID, "POST")

====
